---- MODULE Spec2Model ----
(***************************************************************************)
(* State-machine model of src/cloud_simulation.py: the cloud parcel        *)
(* (UltraOptimizedCloudParcel), its boundary policy and lifecycle, and the *)
(* population scheduler (OptimizedWeatherSystem).                          *)
(*                                                                         *)
(* Numbers.  The source computes in floating point; the model computes in  *)
(* fixed point, rounding down:                                             *)
(*   lengths    in units of 500 m      (the child offset box is +-1 unit)  *)
(*   radii      in 1/1000 km           (0.15 km is 150)                    *)
(*   opacities  in 1/10000             (1.0 is 10000)                      *)
(*   factors    in 1/1000              (1.0 is 1000)                       *)
(*   probabilities and draws of random.random() in percent                 *)
(*   time_since_last_spawn and dt in ticks of the default timestep         *)
(*                                                                         *)
(* Configuration.  sim_config (CFG) is read with getattr at every use; the *)
(* model holds one configuration per behaviour in the variable cfg.        *)
(*                                                                         *)
(* max_age.  The name is listed in __slots__ (line 128) and defined as a   *)
(* property (lines 188-196); the model takes the value the property        *)
(* computes (growth + stable + decay frames).                              *)
(***************************************************************************)
EXTENDS Integers, Sequences, FiniteSets, TLC

VARIABLES
    cfg,                    \* the configuration (CFG), fixed for a behaviour
    parcels,                \* OptimizedWeatherSystem.parcels
    sim_time,               \* OptimizedWeatherSystem.sim_time
    time_since_last_spawn,  \* OptimizedWeatherSystem.time_since_last_spawn
    trajectory_cache,       \* OptimizedWeatherSystem._trajectory_cache
    coverage_cache,         \* OptimizedWeatherSystem._coverage_cache
    last                    \* the last call: its name (op) and argument, the
                            \* collection it found (pre), the outcome of every
                            \* advance (adv), where each parcel went (to) and
                            \* how many children it got (kids), the number of
                            \* parcels spawned, what the call returned (ret);
                            \* for a query that repeats the call before it,
                            \* what that call returned (was); the draw of
                            \* random.random() the spawn policy read (draw)

vars == <<cfg, parcels, sim_time, time_since_last_spawn,
          trajectory_cache, coverage_cache, last>>

----------------------------------------------------------------------------
(* Bounds of the model *)

\* the largest population a step may leave (splits are otherwise unbounded)
MaxPop == 4
\* the largest sim_time a step may reach
MaxSimTime == 6
\* the largest sim_time a step may reach when queries are called between steps
MaxQueryTime == 3
\* the largest population a step may leave when queries are called between steps
MaxQueryPop == 3
\* the largest simulation time step is given or reaches in the timed runs
MaxTime == 2
\* steps of a run that follows one long-lived parcel
MaxShapeTime == 40

----------------------------------------------------------------------------
(* Program constants *)

\* the retirement radius threshold 0.15 km
RETIRE_RADIUS == 150
\* split_fading after a split
SPLIT_FADE_FRAMES == 60
\* CFG.DOMAIN_SIZE_M, in units of 500 m
DOMAIN_SIZE_M == 20
\* CFG.AREA_SIZE_KM
AREA_SIZE_KM == 10
\* the value 1.0 of an opacity
OPACITY_ONE == 10000
\* the value 1.0 of a lifecycle factor
FACTOR_ONE == 1000
\* M_PER_FRAME = CFG.PHYSICS_TIMESTEP * (CFG.DOMAIN_SIZE_M / 1000.0)
M_PER_FRAME == 1

\* Python's None, and a value where None may stand instead
None == <<>>
Some(v) == <<v>>

Min(a, b) == IF a < b THEN a ELSE b
Max(a, b) == IF a > b THEN a ELSE b

----------------------------------------------------------------------------
(* Configuration *)

\* CloudTypePreset.from_config: CFG.CLOUD_TYPES[cloud_type]
CloudTypePreset(ctype) ==
    IF ctype = "cirrus"
    THEN [alt_km |-> 10, r_km_min |-> 300, r_km_max |-> 500, opacity_max |-> 5000]
    ELSE [alt_km |-> 2,  r_km_min |-> 50,  r_km_max |-> 90,  opacity_max |-> 9000]

\* the keys of CFG.CLOUD_TYPE_WEIGHTS
CloudTypes == {"cumulus", "cirrus"}

\* the sign of cos and sin of CFG.CLOUD_DIRECTION (a diagonal direction)
cached_sin_cos(angle_deg) ==
    [cos |-> IF angle_deg \in {45, 315} THEN 1 ELSE -1,
     sin |-> IF angle_deg \in {45, 135} THEN 1 ELSE -1]

----------------------------------------------------------------------------
(* UltraOptimizedCloudParcel *)

\* __init__: speed is base_speed * speed_factor * M_PER_FRAME along each axis
NewParcel(x, y, ctype, speed, c) ==
    [x |-> x, y |-> y, prev_x |-> x, prev_y |-> y,
     type |-> ctype,
     r |-> CloudTypePreset(ctype).r_km_max * 2,
     opacity |-> OPACITY_ONE,
     vx |-> speed * cached_sin_cos(c.direction).cos,
     vy |-> speed * cached_sin_cos(c.direction).sin,
     age |-> 0,
     flag_for_split |-> FALSE,
     split_fading |-> 0,
     ellipse_cache |-> None,
     shape_cache_key |-> None]

\* the max_age property
max_age(c) == c.growth_frames + c.stable_frames + c.decay_frames

\* _get_lifecycle_factors at age `age`; u is the draw of random.random()
LifecycleFactors(age, c, u) ==
    IF age < c.growth_frames
    THEN LET progress == (age * FACTOR_ONE) \div c.growth_frames
         IN  [phase |-> "growth", raised |-> FALSE, flag |-> FALSE,
              opacity_factor |-> progress,
              size_factor |-> 800 + (200 * progress) \div FACTOR_ONE]
    ELSE IF age < c.growth_frames + c.stable_frames
    THEN [phase |-> "stable", raised |-> FALSE,
          flag |-> (c.scatter_probability > 0 /\ u < c.scatter_probability),
          opacity_factor |-> FACTOR_ONE, size_factor |-> FACTOR_ONE]
    ELSE IF c.decay_frames = 0
    THEN \* ZeroDivisionError at line 221
         [phase |-> "decay", raised |-> TRUE, flag |-> FALSE,
          opacity_factor |-> 0, size_factor |-> 0]
    ELSE LET raw == ((age - c.growth_frames - c.stable_frames) * FACTOR_ONE)
                        \div c.decay_frames
             decay_progress == Min(FACTOR_ONE, raw)
         IN  [phase |-> "decay", raised |-> FALSE, flag |-> FALSE,
              opacity_factor |-> FACTOR_ONE - Min(500, decay_progress),
              size_factor |-> FACTOR_ONE - (200 * decay_progress) \div FACTOR_ONE]

\* _handle_boundaries that wraps as soon as the moved position is outside the
\* domain
HandleBoundaries_WrapsAtEdge(x, y, prev_x, prev_y, c) ==
    LET d == DOMAIN_SIZE_M
    IN  IF ~c.wrap_around
        THEN LET margin == (5 * d) \div 10
             IN  [x |-> x, y |-> y,
                  removal |-> (x < -margin \/ x > d + margin \/
                               y < -margin \/ y > d + margin)]
        ELSE LET edge_margin == (1 * d) \div 10
                 near_hi == (8 * d) \div 10
                 near_lo == (2 * d) \div 10
                 nx == IF x < 0
                       THEN (IF prev_x > near_hi THEN d + edge_margin ELSE x)
                       ELSE IF x > d
                       THEN (IF prev_x < near_lo THEN -edge_margin ELSE x)
                       ELSE x
                 ny == IF y < 0
                       THEN (IF prev_y > near_hi THEN d + edge_margin ELSE y)
                       ELSE IF y > d
                       THEN (IF prev_y < near_lo THEN -edge_margin ELSE y)
                       ELSE y
                 removal_margin == (3 * d) \div 10
             IN  [x |-> nx, y |-> ny,
                  removal |-> (nx < -removal_margin /\ ny > d + removal_margin)]

\* _handle_boundaries that wraps onto the opposite edge itself
HandleBoundaries_WrapsToEdge(x, y, prev_x, prev_y, c) ==
    LET d == DOMAIN_SIZE_M
    IN  IF ~c.wrap_around
        THEN LET margin == (5 * d) \div 10
             IN  [x |-> x, y |-> y,
                  removal |-> (x < -margin \/ x > d + margin \/
                               y < -margin \/ y > d + margin)]
        ELSE LET edge_margin == (1 * d) \div 10
                 near_hi == (8 * d) \div 10
                 near_lo == (2 * d) \div 10
                 nx == IF x < -edge_margin
                       THEN (IF prev_x > near_hi THEN d ELSE x)
                       ELSE IF x > d + edge_margin
                       THEN (IF prev_x < near_lo THEN -edge_margin ELSE x)
                       ELSE x
                 ny == IF y < -edge_margin
                       THEN (IF prev_y > near_hi THEN d ELSE y)
                       ELSE IF y > d + edge_margin
                       THEN (IF prev_y < near_lo THEN -edge_margin ELSE y)
                       ELSE y
                 removal_margin == (3 * d) \div 10
             IN  [x |-> nx, y |-> ny,
                  removal |-> (nx < -removal_margin /\ ny > d + removal_margin)]

\* _handle_boundaries that, with wrap-around, signals removal far outside on
\* either of the two sides
HandleBoundaries_EitherSide(x, y, prev_x, prev_y, c) ==
    LET d == DOMAIN_SIZE_M
    IN  IF ~c.wrap_around
        THEN LET margin == (5 * d) \div 10
             IN  [x |-> x, y |-> y,
                  removal |-> (x < -margin \/ x > d + margin \/
                               y < -margin \/ y > d + margin)]
        ELSE LET edge_margin == (1 * d) \div 10
                 near_hi == (8 * d) \div 10
                 near_lo == (2 * d) \div 10
                 nx == IF x < -edge_margin
                       THEN (IF prev_x > near_hi THEN d + edge_margin ELSE x)
                       ELSE IF x > d + edge_margin
                       THEN (IF prev_x < near_lo THEN -edge_margin ELSE x)
                       ELSE x
                 ny == IF y < -edge_margin
                       THEN (IF prev_y > near_hi THEN d + edge_margin ELSE y)
                       ELSE IF y > d + edge_margin
                       THEN (IF prev_y < near_lo THEN -edge_margin ELSE y)
                       ELSE y
                 removal_margin == (3 * d) \div 10
             IN  [x |-> nx, y |-> ny,
                  removal |-> (nx < -removal_margin \/ ny > d + removal_margin)]

\* _handle_boundaries with a wrap that does not look at the previous position
HandleBoundaries_AlwaysWraps(x, y, prev_x, prev_y, c) ==
    LET d == DOMAIN_SIZE_M
    IN  IF ~c.wrap_around
        THEN LET margin == (5 * d) \div 10
             IN  [x |-> x, y |-> y,
                  removal |-> (x < -margin \/ x > d + margin \/
                               y < -margin \/ y > d + margin)]
        ELSE LET edge_margin == (1 * d) \div 10
                 nx == IF x < -edge_margin THEN d + edge_margin
                       ELSE IF x > d + edge_margin THEN -edge_margin
                       ELSE x
                 ny == IF y < -edge_margin THEN d + edge_margin
                       ELSE IF y > d + edge_margin THEN -edge_margin
                       ELSE y
                 removal_margin == (3 * d) \div 10
             IN  [x |-> nx, y |-> ny,
                  removal |-> (nx < -removal_margin /\ ny > d + removal_margin)]

\* _handle_boundaries on the moved position (x, y)
HandleBoundaries(x, y, prev_x, prev_y, c) ==
    LET d == DOMAIN_SIZE_M
    IN  IF ~c.wrap_around
        THEN LET margin == (5 * d) \div 10
             IN  [x |-> x, y |-> y,
                  removal |-> (x < -margin \/ x > d + margin \/
                               y < -margin \/ y > d + margin)]
        ELSE LET edge_margin == (1 * d) \div 10
                 near_hi == (8 * d) \div 10
                 near_lo == (2 * d) \div 10
                 nx == IF x < -edge_margin
                       THEN (IF prev_x > near_hi THEN d + edge_margin ELSE x)
                       ELSE IF x > d + edge_margin
                       THEN (IF prev_x < near_lo THEN -edge_margin ELSE x)
                       ELSE x
                 ny == IF y < -edge_margin
                       THEN (IF prev_y > near_hi THEN d + edge_margin ELSE y)
                       ELSE IF y > d + edge_margin
                       THEN (IF prev_y < near_lo THEN -edge_margin ELSE y)
                       ELSE y
                 removal_margin == (3 * d) \div 10
             IN  [x |-> nx, y |-> ny,
                  removal |-> (nx < -removal_margin /\ ny > d + removal_margin)]

\* the exponential smoothing of lines 254-255: value * 0.95 + target * 0.05
Smooth(value, target) == (95 * value + 5 * target) \div 100

\* a split fade that multiplies by 1.05
Fade_Brightens(opacity) == (105 * opacity) \div 100

\* the split fade of line 260: opacity *= 0.95
Fade(opacity) == (95 * opacity) \div 100

\* an advance that ages the parcel by MOVEMENT_MULTIPLIER frames
ParcelStep_AgeByMultiplier(p, c, u) ==
    LET age1 == p.age + c.movement_multiplier
        mx == p.x + p.vx * c.movement_multiplier
        my == p.y + p.vy * c.movement_multiplier
        b == HandleBoundaries(mx, my, p.x, p.y, c)
        f == LifecycleFactors(age1, c, u)
        moved == [p EXCEPT !.prev_x = p.x, !.prev_y = p.y, !.age = age1,
                           !.x = b.x, !.y = b.y]
        preset == CloudTypePreset(p.type)
        target_size == (preset.r_km_max * f.size_factor * 2) \div FACTOR_ONE
        target_opacity == Max(7000, (preset.opacity_max * f.opacity_factor)
                                        \div FACTOR_ONE)
        r1 == Smooth(p.r, target_size)
        o1 == Smooth(p.opacity, target_opacity)
        fading == p.split_fading > 0
        done == [moved EXCEPT
                   !.flag_for_split = (p.flag_for_split \/ f.flag),
                   !.r = r1,
                   !.opacity = IF fading THEN Fade(o1) ELSE o1,
                   !.split_fading = IF fading THEN p.split_fading - 1
                                    ELSE p.split_fading,
                   !.ellipse_cache = None]
    IN  IF f.raised
        THEN [p |-> moved, ret |-> FALSE, raised |-> TRUE, removal |-> b.removal,
              phase |-> f.phase, opacity_factor |-> 0, size_factor |-> 0]
        ELSE [p |-> done,
              ret |-> (b.removal \/ age1 >= max_age(c) \/ r1 < RETIRE_RADIUS),
              raised |-> FALSE, removal |-> b.removal,
              phase |-> f.phase, opacity_factor |-> f.opacity_factor,
              size_factor |-> f.size_factor]

\* an advance that keeps the descriptor the parcel has memoized
ParcelStep_KeepsEllipse(p, c, u) ==
    LET age1 == p.age + 1
        mx == p.x + p.vx * c.movement_multiplier
        my == p.y + p.vy * c.movement_multiplier
        b == HandleBoundaries(mx, my, p.x, p.y, c)
        f == LifecycleFactors(age1, c, u)
        moved == [p EXCEPT !.prev_x = p.x, !.prev_y = p.y, !.age = age1,
                           !.x = b.x, !.y = b.y]
        preset == CloudTypePreset(p.type)
        target_size == (preset.r_km_max * f.size_factor * 2) \div FACTOR_ONE
        target_opacity == Max(7000, (preset.opacity_max * f.opacity_factor)
                                        \div FACTOR_ONE)
        r1 == Smooth(p.r, target_size)
        o1 == Smooth(p.opacity, target_opacity)
        fading == p.split_fading > 0
        done == [moved EXCEPT
                   !.flag_for_split = (p.flag_for_split \/ f.flag),
                   !.r = r1,
                   !.opacity = IF fading THEN Fade(o1) ELSE o1,
                   !.split_fading = IF fading THEN p.split_fading - 1
                                    ELSE p.split_fading]
    IN  IF f.raised
        THEN [p |-> moved, ret |-> FALSE, raised |-> TRUE, removal |-> b.removal,
              phase |-> f.phase, opacity_factor |-> 0, size_factor |-> 0]
        ELSE [p |-> done,
              ret |-> (b.removal \/ age1 >= max_age(c) \/ r1 < RETIRE_RADIUS),
              raised |-> FALSE, removal |-> b.removal,
              phase |-> f.phase, opacity_factor |-> f.opacity_factor,
              size_factor |-> f.size_factor]

\* UltraOptimizedCloudParcel.step; u is the draw of random.random() in the
\* stable phase.  The result holds the parcel after the call, the value
\* returned (ret), whether the call raised, and the lifecycle factors.
ParcelStep(p, c, u) ==
    LET age1 == p.age + 1
        mx == p.x + p.vx * c.movement_multiplier
        my == p.y + p.vy * c.movement_multiplier
        b == HandleBoundaries(mx, my, p.x, p.y, c)
        f == LifecycleFactors(age1, c, u)
        moved == [p EXCEPT !.prev_x = p.x, !.prev_y = p.y, !.age = age1,
                           !.x = b.x, !.y = b.y]
        preset == CloudTypePreset(p.type)
        target_size == (preset.r_km_max * f.size_factor * 2) \div FACTOR_ONE
        target_opacity == Max(7000, (preset.opacity_max * f.opacity_factor)
                                        \div FACTOR_ONE)
        r1 == Smooth(p.r, target_size)
        o1 == Smooth(p.opacity, target_opacity)
        fading == p.split_fading > 0
        done == [moved EXCEPT
                   !.flag_for_split = (p.flag_for_split \/ f.flag),
                   !.r = r1,
                   !.opacity = IF fading THEN Fade(o1) ELSE o1,
                   !.split_fading = IF fading THEN p.split_fading - 1
                                    ELSE p.split_fading,
                   !.ellipse_cache = None]
    IN  IF f.raised
        THEN [p |-> moved, ret |-> FALSE, raised |-> TRUE, removal |-> b.removal,
              phase |-> f.phase, opacity_factor |-> 0, size_factor |-> 0]
        ELSE [p |-> done,
              ret |-> (b.removal \/ age1 >= max_age(c) \/ r1 < RETIRE_RADIUS),
              raised |-> FALSE, removal |-> b.removal,
              phase |-> f.phase, opacity_factor |-> f.opacity_factor,
              size_factor |-> f.size_factor]

----------------------------------------------------------------------------
(* Inputs: the values the random sources can deliver *)

\* draws of random.random(), in percent
Draws == {0, 99}

\* the draws of one _spawn: the position of _get_spawn_position_base (x in
\* [0.85 d, 0.95 d], y in [0.05 d, 0.15 d]), the speed base_speed *
\* speed_factor * M_PER_FRAME along each axis, and the type
SpawnDraws ==
    {[pos |-> <<(85 * DOMAIN_SIZE_M) \div 100, (15 * DOMAIN_SIZE_M) \div 100>>,
      speed |-> 5, ctype |-> "cumulus"],
     [pos |-> <<(95 * DOMAIN_SIZE_M) \div 100, (5 * DOMAIN_SIZE_M) \div 100>>,
      speed |-> 6, ctype |-> "cirrus"]}

\* the draws of one split: randint(2, 3) and then, per child, the
\* offsets (in units) and the radius factor (in percent) of _create_child_parcel
SplitDraws ==
    {<<[dx |-> -1, dy |-> 1, factor |-> 80], [dx |-> 1, dy |-> -1, factor |-> 89]>>,
     <<[dx |-> 1, dy |-> 0, factor |-> 89], [dx |-> 0, dy |-> 0, factor |-> 80],
       [dx |-> -1, dy |-> -1, factor |-> 85]>>}

----------------------------------------------------------------------------
(* OptimizedWeatherSystem *)

\* _spawn and _spawn_center_cloud: the parcel appended
Spawn(sd, c) == NewParcel(sd.pos[1], sd.pos[2], sd.ctype, sd.speed, c)

\* _create_child_parcel that leaves the child the radius __init__ gave it
CreateChildParcel_OwnRadius(parent, cd, c) ==
    [NewParcel(parent.x + cd.dx, parent.y + cd.dy, parent.type, 0, c) EXCEPT
        !.vx = parent.vx,
        !.vy = parent.vy,
        !.age = c.growth_frames]

\* _create_child_parcel
CreateChildParcel(parent, cd, c) ==
    [NewParcel(parent.x + cd.dx, parent.y + cd.dy, parent.type, 0, c) EXCEPT
        !.vx = parent.vx,
        !.vy = parent.vy,
        !.r = (parent.r * cd.factor) \div 100,
        !.age = c.growth_frames]

\* a filter that retains every parcel, whatever its advance returned
RECURSIVE RetainedFrom_KeepsAll(_, _)
RetainedFrom_KeepsAll(adv, i) ==
    IF i > Len(adv) THEN <<>>
    ELSE <<i>> \o RetainedFrom_KeepsAll(adv, i + 1)

\* the indices, in order, of the advances that did not return True
RECURSIVE RetainedFrom(_, _)
RetainedFrom(adv, i) ==
    IF i > Len(adv) THEN <<>>
    ELSE IF adv[i].ret THEN RetainedFrom(adv, i + 1)
    ELSE <<i>> \o RetainedFrom(adv, i + 1)

\* _handle_cloud_scattering that leaves the parent's split_fading alone
RECURSIVE HandleCloudScattering_NoFade(_, _, _, _)
HandleCloudScattering_NoFade(active, cds, c, k) ==
    IF k > Len(active) THEN <<>>
    ELSE LET parcel == active[k]
         IN  IF parcel.flag_for_split
             THEN [j \in 1..Len(cds[k]) |-> CreateChildParcel(parcel, cds[k][j], c)]
                  \o <<[parcel EXCEPT !.flag_for_split = FALSE]>>
                  \o HandleCloudScattering_NoFade(active, cds, c, k + 1)
             ELSE <<parcel>> \o HandleCloudScattering_NoFade(active, cds, c, k + 1)

\* _handle_cloud_scattering that leaves the parent's flag set
RECURSIVE HandleCloudScattering_KeepsFlag(_, _, _, _)
HandleCloudScattering_KeepsFlag(active, cds, c, k) ==
    IF k > Len(active) THEN <<>>
    ELSE LET parcel == active[k]
         IN  IF parcel.flag_for_split
             THEN [j \in 1..Len(cds[k]) |-> CreateChildParcel(parcel, cds[k][j], c)]
                  \o <<[parcel EXCEPT !.split_fading = SPLIT_FADE_FRAMES]>>
                  \o HandleCloudScattering_KeepsFlag(active, cds, c, k + 1)
             ELSE <<parcel>> \o HandleCloudScattering_KeepsFlag(active, cds, c, k + 1)

\* _handle_cloud_scattering from the k-th parcel on; cds[k] holds the draws
\* of the children of the k-th parcel, as many as randint(2, 3) delivered
RECURSIVE HandleCloudScattering(_, _, _, _)
HandleCloudScattering(active, cds, c, k) ==
    IF k > Len(active) THEN <<>>
    ELSE LET parcel == active[k]
         IN  IF parcel.flag_for_split
             THEN [j \in 1..Len(cds[k]) |-> CreateChildParcel(parcel, cds[k][j], c)]
                  \o <<[parcel EXCEPT !.flag_for_split = FALSE,
                                      !.split_fading = SPLIT_FADE_FRAMES]>>
                  \o HandleCloudScattering(active, cds, c, k + 1)
             ELSE <<parcel>> \o HandleCloudScattering(active, cds, c, k + 1)

\* _handle_spawning whose single-cloud mode waits for the spawn interval
HandleSpawning_SingleWaits(ps, tsls, c, u, sd) ==
    IF c.single_cloud_mode
    THEN IF Len(ps) = 0 /\ tsls > c.min_spawn_interval
         THEN [parcels |-> Append(ps, Spawn(sd, c)), tsls |-> 0, spawned |-> 1,
               drew |-> FALSE]
         ELSE [parcels |-> ps, tsls |-> tsls, spawned |-> 0, drew |-> FALSE]
    ELSE LET can_spawn == tsls > c.min_spawn_interval
             should_spawn == can_spawn /\ Len(ps) < c.max_parcels /\
                             (u < c.spawn_probability \/ Len(ps) = 0)
             ps1 == IF should_spawn THEN Append(ps, Spawn(sd, c)) ELSE ps
             force == Len(ps1) = 0 /\ c.force_initial_cloud
         IN  [parcels |-> IF force THEN Append(ps1, Spawn(sd, c)) ELSE ps1,
              tsls |-> IF should_spawn \/ force THEN 0 ELSE tsls,
              spawned |-> (IF should_spawn THEN 1 ELSE 0) + (IF force THEN 1 ELSE 0),
              drew |-> (can_spawn /\ Len(ps) < c.max_parcels)]

\* _handle_spawning that spawns as soon as the timer reaches the interval
HandleSpawning_AtInterval(ps, tsls, c, u, sd) ==
    IF c.single_cloud_mode
    THEN IF Len(ps) = 0
         THEN [parcels |-> Append(ps, Spawn(sd, c)), tsls |-> 0, spawned |-> 1,
               drew |-> FALSE]
         ELSE [parcels |-> ps, tsls |-> tsls, spawned |-> 0, drew |-> FALSE]
    ELSE LET can_spawn == tsls >= c.min_spawn_interval
             should_spawn == can_spawn /\ Len(ps) < c.max_parcels /\
                             (u < c.spawn_probability \/ Len(ps) = 0)
             ps1 == IF should_spawn THEN Append(ps, Spawn(sd, c)) ELSE ps
             force == Len(ps1) = 0 /\ c.force_initial_cloud
         IN  [parcels |-> IF force THEN Append(ps1, Spawn(sd, c)) ELSE ps1,
              tsls |-> IF should_spawn \/ force THEN 0 ELSE tsls,
              spawned |-> (IF should_spawn THEN 1 ELSE 0) + (IF force THEN 1 ELSE 0),
              \* random.random() is read only if the conjuncts before it hold
              drew |-> (can_spawn /\ Len(ps) < c.max_parcels)]

\* _handle_spawning whose forced spawn also waits for the spawn interval
HandleSpawning_ForceWaits(ps, tsls, c, u, sd) ==
    IF c.single_cloud_mode
    THEN IF Len(ps) = 0
         THEN [parcels |-> Append(ps, Spawn(sd, c)), tsls |-> 0, spawned |-> 1,
               drew |-> FALSE]
         ELSE [parcels |-> ps, tsls |-> tsls, spawned |-> 0, drew |-> FALSE]
    ELSE LET can_spawn == tsls > c.min_spawn_interval
             should_spawn == can_spawn /\ Len(ps) < c.max_parcels /\
                             (u < c.spawn_probability \/ Len(ps) = 0)
             ps1 == IF should_spawn THEN Append(ps, Spawn(sd, c)) ELSE ps
             force == Len(ps1) = 0 /\ c.force_initial_cloud /\ can_spawn
         IN  [parcels |-> IF force THEN Append(ps1, Spawn(sd, c)) ELSE ps1,
              tsls |-> IF should_spawn \/ force THEN 0 ELSE tsls,
              spawned |-> (IF should_spawn THEN 1 ELSE 0) + (IF force THEN 1 ELSE 0),
              \* random.random() is read only if the conjuncts before it hold
              drew |-> (can_spawn /\ Len(ps) < c.max_parcels)]

\* _handle_spawning on the collection ps with the spawn timer tsls; u is the
\* draw of random.random(), sd the draws of _spawn
HandleSpawning(ps, tsls, c, u, sd) ==
    IF c.single_cloud_mode
    THEN IF Len(ps) = 0
         THEN [parcels |-> Append(ps, Spawn(sd, c)), tsls |-> 0, spawned |-> 1,
               drew |-> FALSE]
         ELSE [parcels |-> ps, tsls |-> tsls, spawned |-> 0, drew |-> FALSE]
    ELSE LET can_spawn == tsls > c.min_spawn_interval
             should_spawn == can_spawn /\ Len(ps) < c.max_parcels /\
                             (u < c.spawn_probability \/ Len(ps) = 0)
             ps1 == IF should_spawn THEN Append(ps, Spawn(sd, c)) ELSE ps
             force == Len(ps1) = 0 /\ c.force_initial_cloud
         IN  [parcels |-> IF force THEN Append(ps1, Spawn(sd, c)) ELSE ps1,
              tsls |-> IF should_spawn \/ force THEN 0 ELSE tsls,
              spawned |-> (IF should_spawn THEN 1 ELSE 0) + (IF force THEN 1 ELSE 0),
              \* random.random() is read only if the conjuncts before it hold
              drew |-> (can_spawn /\ Len(ps) < c.max_parcels)]

----------------------------------------------------------------------------
(* The configurations and the initial state *)

\* CLOUD_GROWTH_FRAMES, CLOUD_STABLE_FRAMES, CLOUD_DECAY_FRAMES
FrameConfigs == {<<1, 2, 1>>, <<2, 1, 1>>, <<0, 2, 2>>, <<1, 0, 2>>,
                 <<1, 1, 0>>, <<2, 2, 2>>}

\* the settings step reads; single-cloud mode does not read MAX_PARCELS
Configs ==
    {cc \in {[growth_frames |-> fr[1], stable_frames |-> fr[2], decay_frames |-> fr[3],
      scatter_probability |-> sp,
      single_cloud_mode |-> single,
      force_initial_cloud |-> force,
      wrap_around |-> wrap,
      max_parcels |-> mp,
      spawn_probability |-> 50,
      min_spawn_interval |-> msi,
      movement_multiplier |-> mult,
      direction |-> 135] :
        fr \in FrameConfigs, sp \in {0, 50, 100}, single \in BOOLEAN,
        force \in BOOLEAN, wrap \in BOOLEAN, mp \in {1, 3}, mult \in {1, 4},
        msi \in {1, 5}} :
        cc.single_cloud_mode => cc.max_parcels = 1}

\* the timestep of a step call in ticks: dt omitted (PHYSICS_TIMESTEP) or given
Timesteps == {1}

NoCall == [op |-> "init", pre |-> <<>>, adv |-> <<>>, to |-> <<>>,
           kids |-> <<>>, spawned |-> 1, arg |-> 0, ret |-> None,
                    was |-> None, draw |-> None]

\* OptimizedWeatherSystem.__init__
InitWith(c, sd) ==
    /\ cfg = c
    /\ parcels = <<Spawn(sd, c)>>
    /\ sim_time = 0
    /\ time_since_last_spawn = 0
    /\ trajectory_cache = [speed |-> None, direction |-> None,
                           confidence |-> 0, frame |-> -1]
    /\ coverage_cache = [value |-> 0, frame |-> -1]
    /\ last = NoCall

Init == \E c \in Configs, sd \in SpawnDraws : InitWith(c, sd)

----------------------------------------------------------------------------
(* OptimizedWeatherSystem.step *)

RECURSIVE SumKids(_, _)
SumKids(kidsA, k) == IF k = 0 THEN 0 ELSE kidsA[k] + SumKids(kidsA, k - 1)

\* the first advance that raised, 0 if none did
FirstRaised(adv) ==
    IF \E i \in 1..Len(adv) : adv[i].raised
    THEN CHOOSE i \in 1..Len(adv) :
            adv[i].raised /\ \A j \in 1..(i - 1) : ~adv[j].raised
    ELSE 0

\* the parcels whose advance reads random.random(): those it finds in the
\* stable phase while 0 < SCATTER_PROBABILITY
ReadsDraw(ps, c) ==
    {i \in 1..Len(ps) : /\ c.scatter_probability > 0
                        /\ LifecycleFactors(ps[i].age + 1, c, 0).phase = "stable"}

\* the advance of every parcel; low is the set of parcels that draw 0, the
\* other draws are 99
AdvanceAll(ps, c, low) ==
    [i \in 1..Len(ps) |-> ParcelStep(ps[i], c, IF i \in low THEN 0 ELSE 99)]

\* step on an empty collection that returns without resetting the spawn timer
StepRespawn_KeepsTimer ==
    /\ last.op # "raise"
    /\ parcels = <<>>
    /\ sim_time + 1 <= MaxSimTime
    /\ \E dt \in Timesteps, sd \in SpawnDraws :
        /\ sim_time' = sim_time + 1
        /\ parcels' = <<Spawn(sd, cfg)>>
        /\ time_since_last_spawn' = time_since_last_spawn + dt
        /\ last' = [op |-> "respawn", pre |-> <<>>, adv |-> <<>>, to |-> <<>>,
                    kids |-> <<>>, spawned |-> 1, arg |-> 0, ret |-> None,
                    was |-> None, draw |-> None]
    /\ UNCHANGED <<cfg, trajectory_cache, coverage_cache>>

\* the value step gives sim_time (lines 393-398); the arguments t and t_s
\* are None or a time
SimTimeAfter(t, t_s) ==
    IF t_s # None THEN t_s[1]
    ELSE IF t # None THEN t[1]
    ELSE sim_time + 1

\* step(dt, t, t_s) on an empty collection (lines 393-411): spawn one parcel
\* and return
StepRespawnAt(t, t_s) ==
    /\ last.op # "raise"
    /\ parcels = <<>>
    /\ \E dt \in Timesteps, sd \in SpawnDraws :
        /\ sim_time' = SimTimeAfter(t, t_s)
        /\ parcels' = <<Spawn(sd, cfg)>>
        /\ time_since_last_spawn' = 0
        /\ last' = [op |-> "respawn", pre |-> <<>>, adv |-> <<>>, to |-> <<>>,
                    kids |-> <<>>, spawned |-> 1, arg |-> 0, ret |-> None,
                    was |-> None, draw |-> None]
    /\ UNCHANGED <<cfg, trajectory_cache, coverage_cache>>

\* step() on an empty collection
StepRespawn == sim_time + 1 <= MaxSimTime /\ StepRespawnAt(None, None)

\* the state a completed step leaves, from the advances adv, the draws cds of
\* the splits, and the draws u and sd of the spawn policy
StepResult(adv, cds, dt, u, sd) ==
    LET idx == RetainedFrom(adv, 1)
        active == [k \in 1..Len(idx) |-> adv[idx[k]].p]
        nf == [k \in 1..Len(idx) |->
                  IF active[k].flag_for_split THEN Len(cds[k]) ELSE 0]
        scattered == HandleCloudScattering(active, cds, cfg, 1)
        sp == HandleSpawning(scattered, time_since_last_spawn + dt, cfg, u, sd)
        at == [i \in 1..Len(adv) |->
                 IF adv[i].ret THEN 0 ELSE CHOOSE k \in 1..Len(idx) : idx[k] = i]
    IN  [parcels |-> sp.parcels, tsls |-> sp.tsls,
         last |-> [op |-> "step", pre |-> parcels, adv |-> adv,
                   to |-> [i \in 1..Len(adv) |->
                             IF at[i] = 0 THEN 0 ELSE at[i] + SumKids(nf, at[i])],
                   kids |-> [i \in 1..Len(adv) |->
                               IF at[i] = 0 THEN 0 ELSE nf[at[i]]],
                   spawned |-> sp.spawned, arg |-> 0, ret |-> None,
                   was |-> None,
                   draw |-> IF sp.drew THEN Some(u) ELSE None]]

\* step(dt, t, t_s) on a non-empty collection in which no advance raises
\* (lines 393-429)
StepAdvanceAt(t, t_s) ==
    /\ last.op # "raise"
    /\ parcels # <<>>
    /\ \E dt \in Timesteps, low \in SUBSET ReadsDraw(parcels, cfg) :
       \E adv \in {AdvanceAll(parcels, cfg, low)} :
       \E splitters \in {{i \in 1..Len(adv) :
                            ~adv[i].ret /\ adv[i].p.flag_for_split}} :
        /\ FirstRaised(adv) = 0
        /\ Cardinality({i \in 1..Len(adv) : ~adv[i].ret})
                + 2 * Cardinality(splitters) <= MaxPop
        /\ \E cdS \in [splitters -> SplitDraws], u \in Draws :
           \E cds \in {LET idx == RetainedFrom(adv, 1)
                       IN  [k \in 1..Len(idx) |->
                              IF idx[k] \in splitters THEN cdS[idx[k]] ELSE <<>>]} :
           \E sd \in IF StepResult(adv, cds, dt, u,
                                   CHOOSE d0 \in SpawnDraws : TRUE).last.spawned = 0
                     THEN {CHOOSE d0 \in SpawnDraws : TRUE} ELSE SpawnDraws :
           \E res \in {StepResult(adv, cds, dt, u, sd)} :
                /\ Len(res.parcels) <= MaxPop
                /\ sim_time' = SimTimeAfter(t, t_s)
                /\ parcels' = res.parcels
                /\ time_since_last_spawn' = res.tsls
                /\ trajectory_cache' = [trajectory_cache EXCEPT !.frame = -1]
                /\ coverage_cache' = [coverage_cache EXCEPT !.frame = -1]
                /\ last' = res.last
    /\ UNCHANGED cfg

\* step() on a non-empty collection in which no advance raises
StepAdvance == sim_time + 1 <= MaxSimTime /\ StepAdvanceAt(None, None)

\* step(dt, t, t_s) on a non-empty collection in which an advance raises: the
\* exception leaves step before the collection is replaced
StepRaiseAt(t, t_s) ==
    /\ last.op # "raise"
    /\ parcels # <<>>
    /\ \E dt \in Timesteps, low \in SUBSET ReadsDraw(parcels, cfg) :
       \E adv \in {AdvanceAll(parcels, cfg, low)} :
       \E j \in {FirstRaised(adv)} :
            /\ j # 0
            /\ sim_time' = SimTimeAfter(t, t_s)
            /\ time_since_last_spawn' = time_since_last_spawn + dt
            /\ parcels' = [i \in 1..Len(parcels) |->
                              IF i <= j THEN adv[i].p ELSE parcels[i]]
            /\ last' = [op |-> "raise", pre |-> parcels,
                        adv |-> SubSeq(adv, 1, j), to |-> <<>>, kids |-> <<>>,
                        spawned |-> 0, arg |-> 0, ret |-> None,
                    was |-> None, draw |-> None]
    /\ UNCHANGED <<cfg, trajectory_cache, coverage_cache>>

\* step() on a non-empty collection in which an advance raises
StepRaise == sim_time + 1 <= MaxSimTime /\ StepRaiseAt(None, None)

Next == StepRespawn \/ StepAdvance \/ StepRaise

Spec == Init /\ [][Next]_vars

----------------------------------------------------------------------------
(* Queries *)

\* the integer square root
ISqrt(n) == CHOOSE k \in 0..100 : k * k <= n /\ n < (k + 1) * (k + 1)

\* math.degrees(math.atan2(y, x)) % 360, for the directions the model has
Atan2Degrees(y, x) ==
    IF x > 0 /\ y = 0 THEN 0
    ELSE IF x > 0 /\ y > 0 THEN 45
    ELSE IF x = 0 /\ y > 0 THEN 90
    ELSE IF x < 0 /\ y > 0 THEN 135
    ELSE IF x < 0 /\ y = 0 THEN 180
    ELSE IF x < 0 /\ y < 0 THEN 225
    ELSE IF x = 0 /\ y < 0 THEN 270
    ELSE IF x > 0 /\ y < 0 THEN 315
    ELSE 0

\* round(r, 2) of a radius, in 1/100 km
RoundRadius(r) == (r + 5) \div 10

\* round(opacity, 3) of an opacity, in 1/1000
RoundOpacity(o) == (o + 5) \div 10

\* cached_ellipse_shape: width and height in metres; age_factor in 1/1000
cached_ellipse_shape(radius_km, type_name, age_factor) ==
    LET diameter_m == radius_km * 2
        width_factor == IF type_name = "cirrus" THEN 25
                        ELSE IF type_name = "cumulonimbus" THEN 12 ELSE 10
        height_factor == IF type_name = "cirrus" THEN 4
                         ELSE IF type_name = "cumulonimbus" THEN 18 ELSE 10
    IN  [width |-> (diameter_m * width_factor * age_factor) \div (10 * FACTOR_ONE),
         height |-> (diameter_m * height_factor * age_factor) \div (10 * FACTOR_ONE)]

\* an ellipse that stores the rounded radius of its cache key in the parcel
ParcelEllipse_RoundsRadius(p) ==
    LET cache_key == <<RoundRadius(p.r), p.type, RoundOpacity(p.opacity),
                       p.age \div 10>>
        age_factor == Min(FACTOR_ONE, p.age * 10)
        shape == cached_ellipse_shape(p.r, p.type, age_factor)
        ellipse == <<p.x, p.y, shape.width, shape.height, 0, p.opacity,
                     CloudTypePreset(p.type).alt_km, p.type>>
    IN  IF p.ellipse_cache # None /\ p.shape_cache_key = cache_key
        THEN [p |-> p, ret |-> p.ellipse_cache]
        ELSE [p |-> [p EXCEPT !.r = RoundRadius(p.r) * 10,
                              !.ellipse_cache = ellipse,
                              !.shape_cache_key = cache_key],
              ret |-> ellipse]

\* UltraOptimizedCloudParcel.ellipse: the parcel after the call and the
\* descriptor returned
ParcelEllipse(p) ==
    LET cache_key == <<RoundRadius(p.r), p.type, RoundOpacity(p.opacity),
                       p.age \div 10>>
        age_factor == Min(FACTOR_ONE, p.age * 10)
        shape == cached_ellipse_shape(p.r, p.type, age_factor)
        ellipse == <<p.x, p.y, shape.width, shape.height, 0, p.opacity,
                     CloudTypePreset(p.type).alt_km, p.type>>
    IN  IF p.ellipse_cache # None /\ p.shape_cache_key = cache_key
        THEN [p |-> p, ret |-> p.ellipse_cache]
        ELSE [p |-> [p EXCEPT !.ellipse_cache = ellipse,
                              !.shape_cache_key = cache_key],
              ret |-> ellipse]

\* sum(...) of the first k entries of a sequence of numbers
RECURSIVE SumSeq(_, _)
SumSeq(values, k) == IF k = 0 THEN 0 ELSE values[k] + SumSeq(values, k - 1)

\* the uncached part of get_avg_trajectory (lines 523-539): speed in 1/10
\* km/h, direction in degrees, confidence in percent
AvgTrajectory(ps) ==
    IF ps = <<>> THEN <<None, None, 0>>
    ELSE LET sum_vx == SumSeq([k \in 1..Len(ps) |-> ps[k].vx], Len(ps))
             sum_vy == SumSeq([k \in 1..Len(ps) |-> ps[k].vy], Len(ps))
             \* the absolute value of each average, in 1/10
             avg_vx == ((IF sum_vx < 0 THEN -sum_vx ELSE sum_vx) * 10) \div Len(ps)
             avg_vy == ((IF sum_vy < 0 THEN -sum_vy ELSE sum_vy) * 10) \div Len(ps)
             speed == ISqrt(avg_vx * avg_vx + avg_vy * avg_vy)
         IN  <<Some((speed * 36) \div (10 * M_PER_FRAME)),
               Some(Atan2Degrees(sum_vy, sum_vx)), 90>>

\* the uncached part of current_cloud_cover_pct (lines 560-566), in 1/100 %
CloudCover(ps) ==
    IF ps = <<>> THEN 0
    ELSE LET Area(p) == (((p.r * p.r) \div 1000) * 3142) \div 1000
             total_area == SumSeq([k \in 1..Len(ps) |-> Area(ps[k])], Len(ps))
             domain_area == AREA_SIZE_KM * AREA_SIZE_KM
         IN  Min(10000, (total_area * 50) \div domain_area)

\* a query call: was holds what the call before it returned if that was the
\* same query with the same argument
QueryCall(op, arg, ret) ==
    [op |-> op, pre |-> <<>>, adv |-> <<>>, to |-> <<>>, kids |-> <<>>,
     spawned |-> 0, arg |-> arg, ret |-> ret,
     was |-> IF last.op = op /\ last.arg = arg THEN Some(last.ret) ELSE None,
     draw |-> None]

\* OptimizedWeatherSystem.get_avg_trajectory
GetAvgTrajectory ==
    /\ last.op # "raise"
    /\ LET current_frame == sim_time
           cache == trajectory_cache
       IN  IF cache.frame = current_frame /\ cache.speed # None
           THEN /\ last' = QueryCall("get_avg_trajectory", 0,
                               <<cache.speed, cache.direction, cache.confidence>>)
                /\ UNCHANGED trajectory_cache
           ELSE \E result \in {AvgTrajectory(parcels)} :
                /\ trajectory_cache' = [speed |-> result[1], direction |-> result[2],
                                        confidence |-> result[3],
                                        frame |-> current_frame]
                /\ last' = QueryCall("get_avg_trajectory", 0, result)
    /\ UNCHANGED <<cfg, parcels, sim_time, time_since_last_spawn, coverage_cache>>

\* OptimizedWeatherSystem.current_cloud_cover_pct
CurrentCloudCoverPct ==
    /\ last.op # "raise"
    /\ LET current_frame == sim_time
           cache == coverage_cache
       IN  IF cache.frame = current_frame
           THEN /\ last' = QueryCall("current_cloud_cover_pct", 0, cache.value)
                /\ UNCHANGED coverage_cache
           ELSE \E coverage \in {CloudCover(parcels)} :
                /\ coverage_cache' = [value |-> coverage, frame |-> current_frame]
                /\ last' = QueryCall("current_cloud_cover_pct", 0, coverage)
    /\ UNCHANGED <<cfg, parcels, sim_time, time_since_last_spawn, trajectory_cache>>

\* parcel.ellipse() on the i-th parcel of the collection
Ellipse ==
    /\ last.op # "raise"
    /\ \E i \in 1..Len(parcels) :
       \E e \in {ParcelEllipse(parcels[i])} :
        /\ parcels' = [parcels EXCEPT ![i] = e.p]
        /\ last' = QueryCall("ellipse", i, e.ret)
    /\ UNCHANGED <<cfg, sim_time, time_since_last_spawn, trajectory_cache,
                   coverage_cache>>

\* the indices, in order, of the parcels with opacity > 0.01
RECURSIVE VisibleFrom(_, _)
VisibleFrom(ps, i) ==
    IF i > Len(ps) THEN <<>>
    ELSE IF ps[i].opacity > 100 THEN <<i>> \o VisibleFrom(ps, i + 1)
    ELSE VisibleFrom(ps, i + 1)

\* collect_visible_ellipses(system.parcels)
CollectVisibleEllipses ==
    /\ last.op # "raise"
    /\ \E visible \in {VisibleFrom(parcels, 1)} :
        /\ parcels' = [i \in 1..Len(parcels) |->
                          IF parcels[i].opacity > 100
                          THEN ParcelEllipse(parcels[i]).p ELSE parcels[i]]
        /\ last' = QueryCall("collect_visible_ellipses", 0,
                        [k \in 1..Len(visible) |->
                            ParcelEllipse(parcels[visible[k]]).ret])
    /\ UNCHANGED <<cfg, sim_time, time_since_last_spawn, trajectory_cache,
                   coverage_cache>>

\* the scheduler between queries: few configurations, a short run
QueryConfigs ==
    {c \in Configs :
        /\ <<c.growth_frames, c.stable_frames, c.decay_frames>> = <<1, 2, 1>>
        /\ c.scatter_probability = 50
        /\ ~c.single_cloud_mode /\ ~c.force_initial_cloud
        /\ c.max_parcels = 3 /\ c.min_spawn_interval = 5
        /\ ~c.wrap_around /\ c.movement_multiplier = 4}

InitQuery == \E c \in QueryConfigs, sd \in SpawnDraws : InitWith(c, sd)

QueryStepRespawn == sim_time < MaxQueryTime /\ StepRespawn

QueryStepAdvance ==
    sim_time < MaxQueryTime /\ StepAdvance /\ Len(parcels') <= MaxQueryPop

NextQuery == \/ QueryStepRespawn \/ QueryStepAdvance
             \/ GetAvgTrajectory \/ CurrentCloudCoverPct
             \/ Ellipse \/ CollectVisibleEllipses

SpecQuery == InitQuery /\ [][NextQuery]_vars

----------------------------------------------------------------------------
(* step called with explicit simulation times, and the aggregate queries   *)
(* between the steps                                                       *)

\* the values of an argument t or t_s of step
TimeArgs == {None} \cup {Some(k) : k \in 0..MaxTime}

\* the arguments <<t, t_s>> of a step call: neither, t alone, t_s alone, or
\* both with t = 0
TimeCalls == {<<t, None>> : t \in TimeArgs}
                \cup {<<a, t_s>> : a \in {None, Some(0)}, t_s \in TimeArgs \ {None}}

InitTimed == \E c \in QueryConfigs, sd \in SpawnDraws : InitWith(c, sd)

TimedStepRespawn ==
    \E call \in TimeCalls :
        /\ SimTimeAfter(call[1], call[2]) <= MaxTime
        /\ StepRespawnAt(call[1], call[2])

TimedStepAdvance ==
    \E call \in TimeCalls :
        /\ SimTimeAfter(call[1], call[2]) <= MaxTime
        /\ StepAdvanceAt(call[1], call[2])

NextTimed == \/ TimedStepRespawn \/ TimedStepAdvance
             \/ GetAvgTrajectory \/ CurrentCloudCoverPct

SpecTimed == InitTimed /\ [][NextTimed]_vars

----------------------------------------------------------------------------
(* One long-lived parcel and the descriptor queries: the stable phase is   *)
(* long enough for the opacity to settle, so that the cache key of ellipse *)
(* stays the same from one step to the next                                *)

\* one parcel at a time, no splits, wrap-around with a drift to the
\* south-east (which the boundary policy never removes)
ShapeConfigs ==
    {[growth_frames |-> 1, stable_frames |-> 60, decay_frames |-> 1,
      scatter_probability |-> 0,
      single_cloud_mode |-> FALSE,
      force_initial_cloud |-> FALSE,
      wrap_around |-> TRUE,
      max_parcels |-> 1,
      spawn_probability |-> 50,
      min_spawn_interval |-> 5,
      movement_multiplier |-> 1,
      direction |-> 45]}

InitShape == \E c \in ShapeConfigs, sd \in SpawnDraws : InitWith(c, sd)

ShapeStepAdvance == sim_time < MaxShapeTime /\ StepAdvanceAt(None, None)

NextShape == ShapeStepAdvance \/ Ellipse \/ CollectVisibleEllipses

SpecShape == InitShape /\ [][NextShape]_vars

----------------------------------------------------------------------------
(* A parcel on its own: UltraOptimizedCloudParcel(x, y, ctype) constructed *)
(* anywhere and advanced by its step method until it returns True         *)

\* the coordinates a parcel is constructed at
Coordinates == {-3, 0, 3, 4, 8, 10, 12, 16, 17, 20, 23}

ParcelConfigs ==
    {[growth_frames |-> fr[1], stable_frames |-> fr[2], decay_frames |-> fr[3],
      scatter_probability |-> 50,
      single_cloud_mode |-> FALSE,
      force_initial_cloud |-> FALSE,
      wrap_around |-> wrap,
      max_parcels |-> 1,
      spawn_probability |-> 50,
      min_spawn_interval |-> 1,
      movement_multiplier |-> mult,
      direction |-> dir] :
        fr \in {<<1, 2, 1>>, <<1, 1, 0>>}, wrap \in BOOLEAN, mult \in {1, 3, 4},
        dir \in {45, 135, 225, 315}}

InitParcel ==
    \E c \in ParcelConfigs, x \in Coordinates, y \in Coordinates,
       ctype \in CloudTypes, speed \in {5, 6} :
        /\ cfg = c
        /\ parcels = <<NewParcel(x, y, ctype, speed, c)>>
        /\ sim_time = 0
        /\ time_since_last_spawn = 0
        /\ trajectory_cache = [speed |-> None, direction |-> None,
                               confidence |-> 0, frame |-> -1]
        /\ coverage_cache = [value |-> 0, frame |-> -1]
        /\ last = NoCall

\* one call of UltraOptimizedCloudParcel.step on the parcel
ParcelAdvance ==
    /\ IF last.op = "init" THEN TRUE
       ELSE ~last.adv[1].ret /\ ~last.adv[1].raised
    /\ \E u \in Draws :
       \E res \in {ParcelStep(parcels[1], cfg, u)} :
        /\ parcels' = <<res.p>>
        /\ last' = [op |-> "advance", pre |-> parcels, adv |-> <<res>>,
                    to |-> <<1>>, kids |-> <<0>>, spawned |-> 0,
                    arg |-> 0, ret |-> res.ret,
                    was |-> None, draw |-> None]
    /\ UNCHANGED <<cfg, sim_time, time_since_last_spawn, trajectory_cache,
                   coverage_cache>>

NextParcel == ParcelAdvance

SpecParcel == InitParcel /\ [][NextParcel]_vars

----------------------------------------------------------------------------
(* Claims about the scheduler, checked under Spec *)

\* the last call was a step that returned
StepReturned == last.op \in {"step", "respawn"}

\* the advances of the last call
Advances == 1..Len(last.adv)

\* C1: after every completed step the population does not exceed MAX_PARCELS,
\* also in steps in which retained parcels split.
C1_PopulationWithinMax ==
    StepReturned => Len(parcels) <= cfg.max_parcels

\* C2: a step that finds the collection empty leaves exactly one parcel, of
\* age 0, and a spawn timer of 0, whatever the spawn policy settings are.
C2_EmptyStepRespawns ==
    (StepReturned /\ last.pre = <<>>) =>
        /\ Len(parcels) = 1
        /\ parcels[1].age = 0
        /\ time_since_last_spawn = 0

C2_Witness ==
    /\ last.op = "respawn" /\ last.pre = <<>> /\ Len(parcels) = 1
    /\ sim_time > 1
    /\ ~cfg.single_cloud_mode /\ ~cfg.force_initial_cloud
    /\ cfg.min_spawn_interval > sim_time

\* C3: after every completed step every parcel of the collection (survivor,
\* split child or newly spawned) has age < max_age and r >= 0.15.
C3_AllParcelsAlive ==
    StepReturned =>
        \A k \in 1..Len(parcels) :
            parcels[k].age < max_age(cfg) /\ parcels[k].r >= RETIRE_RADIUS

\* C4 as stated: with SCATTER_PROBABILITY 1.0, every parcel that its advance
\* finds in the stable phase gets 2 or 3 children in that step, stays in the
\* collection, has its flag cleared and split_fading 60 when the step returns.
C4_StableAlwaysSplits ==
    (last.op = "step" /\ cfg.scatter_probability = 100) =>
        \A i \in Advances :
            last.adv[i].phase = "stable" =>
                /\ last.kids[i] \in {2, 3}
                /\ last.to[i] # 0
                /\ ~parcels[last.to[i]].flag_for_split
                /\ parcels[last.to[i]].split_fading = SPLIT_FADE_FRAMES

\* the children of the i-th parcel of the last step are the entries that
\* precede it in the collection
ChildrenOf(i) == {k \in 1..Len(parcels) :
                    last.to[i] - last.kids[i] <= k /\ k < last.to[i]}

\* C4 amended: the same for every such parcel that its advance did not retire;
\* the children are new parcels next to the parent, and the population is the
\* retained parcels, all children and the spawned parcel.
C4_RetainedStableSplits ==
    (last.op = "step" /\ cfg.scatter_probability = 100) =>
        /\ \A i \in Advances :
            (last.adv[i].phase = "stable" /\ ~last.adv[i].ret) =>
                /\ last.kids[i] \in {2, 3}
                /\ last.to[i] # 0
                /\ ~parcels[last.to[i]].flag_for_split
                /\ parcels[last.to[i]].split_fading = SPLIT_FADE_FRAMES
                /\ parcels[last.to[i]].age = last.pre[i].age + 1
                /\ \A k \in ChildrenOf(i) :
                      /\ parcels[k].age = cfg.growth_frames
                      /\ parcels[k].type = last.pre[i].type
                      /\ parcels[k].prev_x = parcels[k].x
        /\ Len(parcels) = Cardinality({i \in Advances : ~last.adv[i].ret})
                            + SumKids(last.kids, Len(last.kids)) + last.spawned

C4_Witness ==
    /\ last.op = "step" /\ cfg.scatter_probability = 100
    /\ \E i \in Advances :
          /\ last.adv[i].phase = "stable" /\ ~last.adv[i].ret
          /\ last.kids[i] = 3
          /\ parcels[last.to[i]].split_fading = SPLIT_FADE_FRAMES

\* a split child as _create_child_parcel leaves it: never advanced, of age
\* growth_frames, and smaller than a parcel that __init__ leaves
FreshAtGrowth(p) ==
    /\ p.age = cfg.growth_frames /\ p.prev_x = p.x /\ p.prev_y = p.y
    /\ p.r < CloudTypePreset(p.type).r_km_max * 2

\* C5: in every completed step, the first advance of a split child (created
\* with age growth_frames) takes the stable branch of the lifecycle, with
\* opacity factor 1.0 and size factor 1.0, for every configuration.
C5_ChildStartsStable ==
    last.op = "step" =>
        \A i \in Advances :
            FreshAtGrowth(last.pre[i]) =>
                /\ last.adv[i].phase = "stable"
                /\ last.adv[i].opacity_factor = FACTOR_ONE
                /\ last.adv[i].size_factor = FACTOR_ONE

\* C6: every advance adds exactly 1 to the age of its parcel, and a step
\* changes the age of a parcel of the collection in no other way: a retained
\* parcel leaves the step one frame older, a parcel that an exception kept
\* from being advanced keeps its age.
C6_AgeStepsByOne ==
    /\ last.op \in {"step", "raise"} =>
          \A i \in Advances : last.adv[i].p.age = last.pre[i].age + 1
    /\ last.op = "step" =>
          \A i \in Advances :
              last.to[i] # 0 => parcels[last.to[i]].age = last.pre[i].age + 1
    /\ last.op = "raise" =>
          /\ Len(parcels) = Len(last.pre)
          /\ \A i \in 1..Len(parcels) :
                parcels[i].age = last.pre[i].age +
                                    (IF i \in Advances THEN 1 ELSE 0)

C6_Witness ==
    /\ last.op = "step"
    /\ \E i \in Advances :
          /\ last.to[i] # 0 /\ last.kids[i] > 0
          /\ last.pre[i].age >= 2
          /\ parcels[last.to[i]].age = last.pre[i].age + 1

\* C7: an advance that signals neither boundary nor radius retirement returns
\* True exactly when it brings the age to max_age, and it computes opacity
\* factor 1.0 when it brings the age to growth_frames.
C7_RetiredAtMaxAge ==
    last.op \in {"step", "raise"} =>
        \A i \in Advances :
            LET a == last.adv[i]
            IN  (~a.removal /\ a.p.r >= RETIRE_RADIUS) =>
                    /\ ~a.raised
                    /\ a.ret <=> (a.p.age >= max_age(cfg))
                    /\ (a.p.age = cfg.growth_frames =>
                            a.opacity_factor = FACTOR_ONE)

\* C9: after every advance, 0 <= opacity <= 1 and r >= 0, for the parcel
\* advanced and for every parcel of the collection.
C9_OpacityAndRadiusInRange ==
    /\ \A k \in 1..Len(parcels) :
          /\ 0 <= parcels[k].opacity /\ parcels[k].opacity <= OPACITY_ONE
          /\ parcels[k].r >= 0
    /\ \A i \in Advances :
          /\ 0 <= last.adv[i].p.opacity /\ last.adv[i].p.opacity <= OPACITY_ONE
          /\ last.adv[i].p.r >= 0

C9_Witness ==
    /\ last.op = "step"
    /\ \E i \in Advances :
          /\ last.pre[i].split_fading > 0
          /\ last.to[i] # 0
          /\ parcels[last.to[i]].opacity < last.pre[i].opacity
    /\ \E k \in 1..Len(parcels) : FreshAtGrowth(parcels[k])

\* C11: with FORCE_INITIAL_CLOUD set, the collection is non-empty after
\* construction and after every completed step, also after a step in which
\* every parcel retired while the spawn timer was below the minimum interval.
C11_ForcedNeverEmpty ==
    (cfg.force_initial_cloud /\ last.op \in {"init", "step", "respawn"}) =>
        parcels # <<>>

C11_Witness ==
    /\ cfg.force_initial_cloud /\ ~cfg.single_cloud_mode
    /\ last.op = "step" /\ \A i \in Advances : last.adv[i].ret
    /\ time_since_last_spawn = 0 /\ last.spawned = 1
    /\ sim_time < cfg.min_spawn_interval
    /\ Len(parcels) = 1

\* C13: two schedulers in the same state, with the same seeded generator
\* (self._rng: spawn position and type), given the same step call, are in the
\* same state afterwards.  The draws of random.random() come from the random
\* module, not from self._rng, so the two runs may draw differently: the
\* claim says the advance of the collection, and with it the split events of
\* the step, is the same whatever those draws are.
C13_StepIsFunctionOfSeed ==
    (last.op # "raise" /\ parcels # <<>>) =>
        \A low1, low2 \in SUBSET ReadsDraw(parcels, cfg) :
            AdvanceAll(parcels, cfg, low1) = AdvanceAll(parcels, cfg, low2)

\* the population the spawn policy of the step just made found, after
\* retirement and splitting
PolicyPopulation == Len(parcels') - last'.spawned

\* the draw the spawn policy of the step just made read was below
\* SPAWN_PROBABILITY
DrewBelow == last'.draw # None /\ last'.draw[1] < cfg.spawn_probability

\* C14 as stated: in regular mode a step on a non-empty collection spawns
\* only if the timer (after adding dt) is above MIN_SPAWN_INTERVAL, the
\* population is below MAX_PARCELS and (the draw is below SPAWN_PROBABILITY
\* or the population is empty); it spawns at most one parcel; the timer is 0
\* after a spawn and has grown by dt otherwise.
C14_SpawnOnlyByPolicy ==
    [][(last'.op = "step" /\ ~cfg.single_cloud_mode) =>
        \E dt \in Timesteps :
            /\ last'.spawned <= 1
            /\ last'.spawned = 1 =>
                  /\ time_since_last_spawn + dt > cfg.min_spawn_interval
                  /\ PolicyPopulation < cfg.max_parcels
                  /\ (DrewBelow \/ PolicyPopulation = 0)
            /\ time_since_last_spawn' =
                  IF last'.spawned > 0 THEN 0 ELSE time_since_last_spawn + dt]_vars

\* C14 amended: the same, or the population is empty and FORCE_INITIAL_CLOUD
\* is set.
C14_SpawnByPolicyOrForce ==
    [][(last'.op = "step" /\ ~cfg.single_cloud_mode) =>
        \E dt \in Timesteps :
            /\ last'.spawned <= 1
            /\ last'.spawned = 1 =>
                  \/ /\ time_since_last_spawn + dt > cfg.min_spawn_interval
                     /\ PolicyPopulation < cfg.max_parcels
                     /\ (DrewBelow \/ PolicyPopulation = 0)
                  \/ PolicyPopulation = 0 /\ cfg.force_initial_cloud
            /\ time_since_last_spawn' =
                  IF last'.spawned > 0 THEN 0 ELSE time_since_last_spawn + dt]_vars

C14_Witness ==
    /\ last.op = "step" /\ ~cfg.single_cloud_mode
    /\ last.spawned = 1 /\ last.draw = Some(0)
    /\ Len(parcels) >= 2 /\ Len(parcels) <= cfg.max_parcels
    /\ sim_time > cfg.min_spawn_interval
    /\ time_since_last_spawn = 0

\* C15: in single-cloud mode a completed step spawns exactly when the
\* collection is empty where the spawn policy runs (or where the step
\* starts), one parcel, without reading the draw and whatever the interval,
\* MAX_PARCELS and FORCE_INITIAL_CLOUD are; with SCATTER_PROBABILITY 0 the
\* population is 1 after construction and after every completed step.
C15_SingleModeSpawnsWhenEmpty ==
    cfg.single_cloud_mode =>
        /\ last.op = "step" =>
              /\ last.spawned = (IF \A i \in Advances : last.adv[i].ret
                                 THEN 1 ELSE 0)
              /\ last.spawned = 1 => Len(parcels) = 1 /\ time_since_last_spawn = 0
              /\ last.draw = None
        /\ last.op = "respawn" => last.pre = <<>> /\ Len(parcels) = 1
        /\ (cfg.scatter_probability = 0 /\ last.op \in {"init", "step", "respawn"})
              => Len(parcels) = 1

C15_Witness ==
    /\ cfg.single_cloud_mode /\ cfg.force_initial_cloud
    /\ cfg.scatter_probability = 0
    /\ last.op = "step" /\ last.spawned = 1
    /\ sim_time <= cfg.min_spawn_interval
    /\ Len(parcels) = 1

\* C16: when a step returns, every child it created has the velocity and the
\* type of its parent, age growth_frames, no split flag, split_fading 0, a
\* position within the offset box (half a kilometre each way) around the
\* position the advance gave the parent, a radius of the parent's radius
\* after the advance times a factor in [0.8, 0.9), and has not been advanced.
C16_ChildInheritsParent ==
    last.op = "step" =>
        \A i \in Advances :
            last.to[i] # 0 =>
                LET parent == parcels[last.to[i]]
                IN  /\ parent.x = last.adv[i].p.x /\ parent.r = last.adv[i].p.r
                    /\ Cardinality(ChildrenOf(i)) = last.kids[i]
                    /\ \A k \in ChildrenOf(i) :
                        LET child == parcels[k]
                        IN  /\ child.vx = parent.vx /\ child.vy = parent.vy
                            /\ child.type = parent.type
                            /\ child.age = cfg.growth_frames
                            /\ ~child.flag_for_split
                            /\ child.split_fading = 0
                            /\ child.x - parent.x \in -1..1
                            /\ child.y - parent.y \in -1..1
                            /\ 80 * parent.r < 100 * (child.r + 1)
                            /\ 100 * child.r < 90 * parent.r
                            /\ child.prev_x = child.x /\ child.prev_y = child.y
                            /\ child.opacity = OPACITY_ONE

C16_Witness ==
    /\ last.op = "step"
    /\ \E i \in Advances :
          /\ last.to[i] # 0 /\ last.kids[i] = 3
          /\ parcels[last.to[i]].type = "cirrus"
          /\ parcels[last.to[i]].r < CloudTypePreset("cirrus").r_km_max * 2
          /\ \E k \in ChildrenOf(i) : parcels[k].x # parcels[last.to[i]].x

\* parcel q is parcel p as split handling may have left it
SameParcel(p, q) ==
    q = [p EXCEPT !.flag_for_split = q.flag_for_split,
                  !.split_fading = q.split_fading]

\* the places of the collection that hold a parcel advanced by the last step
SurvivorPlaces == {last.to[i] : i \in Advances} \ {0}

C22_FlagConsumedFadeCounts ==
    /\ last.op # "raise" =>
          \A k \in 1..Len(parcels) :
              /\ ~parcels[k].flag_for_split
              /\ parcels[k].split_fading \in 0..SPLIT_FADE_FRAMES
    /\ last.op = "step" =>
          \A i \in Advances :
              /\ last.adv[i].p.split_fading =
                    IF last.pre[i].split_fading > 0
                    THEN last.pre[i].split_fading - 1 ELSE 0
              /\ last.to[i] # 0 =>
                    parcels[last.to[i]].split_fading =
                        IF last.kids[i] > 0 THEN SPLIT_FADE_FRAMES
                        ELSE last.adv[i].p.split_fading
              /\ (last.to[i] # 0 /\ last.adv[i].p.flag_for_split) => last.kids[i] > 0

C22_Witness ==
    /\ last.op = "step"
    /\ \E i, j \in Advances :
          /\ last.pre[i].split_fading > 0 /\ last.to[i] # 0 /\ last.kids[i] = 0
          /\ parcels[last.to[i]].split_fading = last.pre[i].split_fading - 1
          /\ last.adv[j].p.flag_for_split /\ last.adv[j].ret

\* C23: a parcel is removed from the collection after at most max_age minus
\* its initial age steps that advance it, in both boundary modes.  Every
\* advance adds 1 to the age, so the parcel has then reached max_age: no
\* parcel of age max_age or more is in the collection after a step call.
C23_GoneByMaxAge ==
    last.op \in {"step", "raise"} =>
        \A k \in 1..Len(parcels) : parcels[k].age < max_age(cfg)

----------------------------------------------------------------------------
(* Claims about the boundary policy, checked under SpecParcel *)

\* the coordinate the claims expect from a moved coordinate m and a previous
\* coordinate prev: with wrap-around, 0.1 d beyond the opposite edge if m is
\* more than 0.1 d outside an edge and prev within 0.2 d of the opposite one
ExpectedCoordinate(m, prev) ==
    IF cfg.wrap_around /\ 10 * m < -DOMAIN_SIZE_M /\ 10 * prev > 8 * DOMAIN_SIZE_M
    THEN (11 * DOMAIN_SIZE_M) \div 10
    ELSE IF cfg.wrap_around /\ 10 * m > 11 * DOMAIN_SIZE_M
                            /\ 10 * prev < 2 * DOMAIN_SIZE_M
    THEN -(DOMAIN_SIZE_M \div 10)
    ELSE m

\* C17: an advance leaves the parcel at its previous position plus velocity
\* times MOVEMENT_MULTIPLIER, except that with wrap-around a coordinate more
\* than 0.1 d outside an edge whose previous value was within 0.2 d of the
\* opposite edge is set to 0.1 d beyond the opposite edge.
C17_WrapOnlyFromOppositeEdge ==
    last.op = "advance" =>
        LET p == last.pre[1]
            q == last.adv[1].p
        IN  /\ q.x = ExpectedCoordinate(p.x + p.vx * cfg.movement_multiplier, p.x)
            /\ q.y = ExpectedCoordinate(p.y + p.vy * cfg.movement_multiplier, p.y)
            /\ q.prev_x = p.x /\ q.prev_y = p.y

C17_Witness ==
    /\ last.op = "advance" /\ cfg.wrap_around
    /\ LET p == last.pre[1]
           q == last.adv[1].p
       IN  /\ 10 * q.x = 11 * DOMAIN_SIZE_M
           /\ q.x # p.x + p.vx * cfg.movement_multiplier
           /\ q.y = p.y + p.vy * cfg.movement_multiplier
           /\ 10 * q.y > 11 * DOMAIN_SIZE_M

\* the retirement the claims expect from the boundary policy at (x, y)
ExpectedRemoval(x, y) ==
    IF cfg.wrap_around
    THEN 10 * x < -3 * DOMAIN_SIZE_M /\ 10 * y > 13 * DOMAIN_SIZE_M
    ELSE \/ 2 * x < -DOMAIN_SIZE_M \/ 2 * x > 3 * DOMAIN_SIZE_M
         \/ 2 * y < -DOMAIN_SIZE_M \/ 2 * y > 3 * DOMAIN_SIZE_M

\* C18: the boundary policy signals removal exactly when, without
\* wrap-around, the position is more than half the domain size outside the
\* domain on any side, and with wrap-around, the position (after wrapping) has
\* x < -0.3 d and y > 1.3 d at once.
C18_RemovalExactlyOutside ==
    last.op = "advance" =>
        LET q == last.adv[1].p
        IN  last.adv[1].removal <=> ExpectedRemoval(q.x, q.y)

C18_Witness ==
    /\ last.op = "advance" /\ cfg.wrap_around
    /\ ~last.adv[1].removal
    /\ 10 * last.adv[1].p.x < -3 * DOMAIN_SIZE_M
    /\ 10 * last.adv[1].p.y <= 13 * DOMAIN_SIZE_M

\* the distance an advance moves a parcel with velocity v along one axis
Displacement(v) ==
    IF v < 0 THEN -(v * cfg.movement_multiplier) ELSE v * cfg.movement_multiplier

\* C24: with wrap-around, if an advance moves the parcel by at most 0.9 d
\* along each axis, the boundary policy leaves the moved position as it is: a
\* parcel that drifts past an edge is not moved to the opposite edge.
C24_SlowParcelNeverWraps ==
    LET p == last.pre[1]
        q == last.adv[1].p
    IN  (/\ last.op = "advance" /\ cfg.wrap_around
         /\ 10 * Displacement(p.vx) <= 9 * DOMAIN_SIZE_M
         /\ 10 * Displacement(p.vy) <= 9 * DOMAIN_SIZE_M) =>
            /\ q.x = p.x + p.vx * cfg.movement_multiplier
            /\ q.y = p.y + p.vy * cfg.movement_multiplier

\* a parcel from near the east edge, moved by exactly 0.9 d, is past the west
\* edge and stays there
C24_Witness ==
    /\ last.op = "advance" /\ cfg.wrap_around
    /\ 10 * Displacement(last.pre[1].vx) = 9 * DOMAIN_SIZE_M
    /\ 10 * last.pre[1].x > 8 * DOMAIN_SIZE_M
    /\ last.adv[1].p.x < 0
    /\ last.adv[1].p.x = last.pre[1].x + last.pre[1].vx * cfg.movement_multiplier

----------------------------------------------------------------------------
(* Claims about the queries, checked under SpecQuery *)

Queries == {"get_avg_trajectory", "current_cloud_cover_pct",
            "collect_visible_ellipses", "ellipse"}

\* the simulation state of a collection: its parcels in order, each with
\* position, velocity, radius, opacity, age, split flag and split countdown
SimulationState(ps) ==
    [k \in 1..Len(ps) |->
        <<ps[k].x, ps[k].y, ps[k].vx, ps[k].vy, ps[k].r, ps[k].opacity,
          ps[k].age, ps[k].flag_for_split, ps[k].split_fading, ps[k].type>>]

\* C10: a call of get_avg_trajectory, current_cloud_cover_pct,
\* collect_visible_ellipses or ellipse leaves the collection, its order, every
\* parcel's position, velocity, radius, opacity, age, split flag and split
\* countdown, sim_time and time_since_last_spawn as they were; and a query
\* called again with no step in between returns what it returned before.
C10_QueriesLeaveState ==
    [][last'.op \in Queries =>
          /\ SimulationState(parcels') = SimulationState(parcels)
          /\ sim_time' = sim_time
          /\ time_since_last_spawn' = time_since_last_spawn
          /\ cfg' = cfg
          /\ (last.op = last'.op /\ last.arg = last'.arg) =>
                last'.ret = last.ret]_vars

C10_Witness ==
    /\ last.op = "collect_visible_ellipses" /\ last.was = Some(last.ret)
    /\ Len(last.ret) >= 2
    /\ sim_time >= 1
    /\ trajectory_cache.frame = sim_time /\ coverage_cache.frame = sim_time
    /\ \E k \in 1..Len(parcels) : parcels[k].split_fading > 0

----------------------------------------------------------------------------
(* Claims about the memoized descriptor, checked under SpecShape *)

\* the descriptor a computation without memoization gives for parcel p
UncachedEllipse(p) ==
    LET shape == cached_ellipse_shape(p.r, p.type, Min(FACTOR_ONE, p.age * 10))
    IN  <<p.x, p.y, shape.width, shape.height, 0, p.opacity,
          CloudTypePreset(p.type).alt_km, p.type>>

\* the key ellipse compares with the key it stored
CacheKey(p) ==
    <<RoundRadius(p.r), p.type, RoundOpacity(p.opacity), p.age \div 10>>

----------------------------------------------------------------------------
(* Claims about steps with explicit times, checked under SpecTimed *)

\* C12: over any sequence of step calls, with or without the arguments t and
\* t_s, sim_time after a step is never smaller than sim_time before it.
C12_SimTimeMonotonic == [][sim_time' >= sim_time]_vars

\* C19: whatever steps and queries came before, current_cloud_cover_pct and
\* get_avg_trajectory return the value computed from the current collection.
C19_AggregatesCurrent ==
    /\ last.op = "current_cloud_cover_pct" => last.ret = CloudCover(parcels)
    /\ last.op = "get_avg_trajectory" => last.ret = AvgTrajectory(parcels)

----------------------------------------------------------------------------
(* Claims about one advance, checked under SpecParcel *)

\* both coordinates between 0.2 and 0.8 of the domain size
NearCentre(p) ==
    /\ 2 * DOMAIN_SIZE_M <= 10 * p.x /\ 10 * p.x <= 8 * DOMAIN_SIZE_M
    /\ 2 * DOMAIN_SIZE_M <= 10 * p.y /\ 10 * p.y <= 8 * DOMAIN_SIZE_M

\* the square of the distance between the positions of two parcels
Distance2(p, q) == (p.x - q.x) * (p.x - q.x) + (p.y - q.y) * (p.y - q.y)

\* the square of the domain diagonal
Diagonal2 == 2 * DOMAIN_SIZE_M * DOMAIN_SIZE_M

\* C8 as stated: one advance moves a parcel that was near the centre by at
\* most one domain diagonal, in either boundary mode.
C8_CentreMovesWithinDiagonal ==
    last.op = "advance" =>
        (NearCentre(last.pre[1]) =>
            Distance2(last.adv[1].p, last.pre[1]) <= Diagonal2)

\* C8 amended: the boundary policy leaves a parcel that was near the centre
\* where the drift put it, in either boundary mode: the position after the
\* advance is the previous position plus velocity times MOVEMENT_MULTIPLIER,
\* so the parcel moves by more than one diagonal only if the drift step
\* itself is longer than that.
C8_CentreOnlyDrifts ==
    last.op = "advance" =>
        (NearCentre(last.pre[1]) =>
            LET p == last.pre[1]
                q == last.adv[1].p
                dx == p.vx * cfg.movement_multiplier
                dy == p.vy * cfg.movement_multiplier
            IN  /\ q.x = p.x + dx /\ q.y = p.y + dy
                /\ q.prev_x = p.x /\ q.prev_y = p.y
                /\ (dx * dx + dy * dy <= Diagonal2 =>
                        Distance2(q, p) <= Diagonal2))

C8_Witness ==
    /\ last.op = "advance" /\ NearCentre(last.pre[1])
    /\ cfg.wrap_around
    /\ 10 * last.adv[1].p.x < -DOMAIN_SIZE_M
    /\ 10 * last.adv[1].p.y > 11 * DOMAIN_SIZE_M

====
